---- MODULE Spec2Model ----
(***************************************************************************)
(* Persona ChatBot (src/acm-genai/main.py): a Streamlit script that keeps  *)
(* a conversation log in st.session_state, assembles a prompt from the     *)
(* last turns, calls a conversational model and post-processes the reply   *)
(* according to the selected persona.                                      *)
(*                                                                         *)
(* Text is modelled as a sequence of one-character strings, so that the    *)
(* string operations of the script (lower, replace, strip, split, join,    *)
(* format, slicing) are computed character by character.  An emoji glyph   *)
(* is one element of such a sequence, named by its code point.             *)
(*                                                                         *)
(* One run of the script is split at the model call: ClearConversation,   *)
(* RunIdle or RunSubmit (the widgets, the clear button, the display, the   *)
(* user turn and the prompt), ModelAnswers or ModelFails (the model call   *)
(* and its except branch) and PostProcess (the persona post-processing,    *)
(* the bot turn and the rerun).  The user acts between two runs of the     *)
(* script; a run, once started, is followed to its end.  The Turn's        *)
(* timestamp, a wall-clock string that no statement of the script reads    *)
(* back except to print it, is left out of the Turn.                       *)
(***************************************************************************)
EXTENDS Integers, Sequences, FiniteSets, TLC

VARIABLES
    keys,          \* the keys present in st.session_state
    history,       \* st.session_state['history']: the Conversation Log
    conv,          \* st.session_state['conv']: the prompt of the last Conversation
    persona,       \* value of the persona selectbox
    max_history,   \* value of the max-history slider
    user_input,    \* value of the text_input widget
    displayed,     \* what the last run of the script rendered
    bot_raw,       \* local bot_raw of the running script
    failure,       \* str(e) of the exception caught in the running script
    trigger,       \* what asked for the run of the script that is pending
    pc,            \* where the script is
    text_in,       \* argument of a direct call of to_shakespeare
    text_out       \* its result

vars == <<keys, history, conv, persona, max_history, user_input, displayed,
          bot_raw, failure, trigger, pc, text_in, text_out>>

(***************************************************************************)
(* Bounds of the model.                                                    *)
(***************************************************************************)
\* user/bot pairs the log may hold before the model stops taking submissions
MaxCycles == 2
\* longest argument of the direct calls of to_shakespeare
MaxTextLen == 3

None == <<"None">>

(***************************************************************************)
(* Python's string operations.                                             *)
(***************************************************************************)
UpperLetters == <<"A", "B", "C", "D", "E", "F", "G", "H", "I", "J", "K", "L", "M", "N", "O",
                  "P", "Q", "R", "S", "T", "U", "V", "W", "X", "Y", "Z">>
LowerLetters == <<"a", "b", "c", "d", "e", "f", "g", "h", "i", "j", "k", "l", "m", "n", "o",
                  "p", "q", "r", "s", "t", "u", "v", "w", "x", "y", "z">>

\* str.lower() / str.upper() on one character
LowerChar(c) ==
    IF \E i \in 1..Len(UpperLetters) : UpperLetters[i] = c
    THEN LowerLetters[CHOOSE i \in 1..Len(UpperLetters) : UpperLetters[i] = c]
    ELSE c

UpperChar(c) ==
    IF \E i \in 1..Len(LowerLetters) : LowerLetters[i] = c
    THEN UpperLetters[CHOOSE i \in 1..Len(LowerLetters) : LowerLetters[i] = c]
    ELSE c

lower(s) == [i \in 1..Len(s) |-> LowerChar(s[i])]

\* the characters str.strip() and str.split() take for whitespace
Whitespace == {" ", "\t", "\n", "\r"}

startswith(t, a) == Len(t) >= Len(a) /\ SubSeq(t, 1, Len(a)) = a

\* s[n:]
DropFirst(s, n) == SubSeq(s, n + 1, Len(s))

\* s[-n:] for n > 0
LastN(s, n) == IF Len(s) <= n THEN s ELSE SubSeq(s, Len(s) - n + 1, Len(s))

\* str.replace(a, b), a not empty: the occurrences of a, found left to right and
\* not overlapping, are replaced by b
RECURSIVE replace(_, _, _)
replace(t, a, b) ==
    LET found == {i \in 1..(Len(t) - Len(a) + 1) : SubSeq(t, i, i + Len(a) - 1) = a}
    IN  IF found = {} THEN t
        ELSE LET first == CHOOSE i \in found : \A j \in found : i <= j
             IN  SubSeq(t, 1, first - 1) \o b
                     \o replace(DropFirst(t, first + Len(a) - 1), a, b)

\* str.strip(chars)
strip(t, chars) ==
    LET keep == {i \in 1..Len(t) : t[i] \notin chars}
    IN  IF keep = {} THEN <<>>
        ELSE SubSeq(t, CHOOSE i \in keep : \A j \in keep : i <= j,
                       CHOOSE i \in keep : \A j \in keep : i >= j)

\* str.split(): the maximal runs of non-whitespace characters
RECURSIVE split(_)
split(t) ==
    LET starts == {i \in 1..Len(t) : t[i] \notin Whitespace}
    IN  IF starts = {} THEN <<>>
        ELSE LET first == CHOOSE i \in starts : \A j \in starts : i <= j
                 stops == {i \in first..Len(t) : t[i] \in Whitespace}
                 stop == IF stops = {} THEN Len(t) + 1
                         ELSE CHOOSE i \in stops : \A j \in stops : i <= j
             IN  <<SubSeq(t, first, stop - 1)>> \o split(DropFirst(t, stop - 1))

\* sep.join(parts)
RECURSIVE join(_, _)
join(sep, parts) ==
    IF parts = <<>> THEN <<>>
    ELSE IF Len(parts) = 1 THEN parts[1]
    ELSE parts[1] \o sep \o join(sep, Tail(parts))

\* whether part occurs in text
Contains(text, part) ==
    \E i \in 0..(Len(text) - Len(part)) : SubSeq(text, i + 1, i + Len(part)) = part

(***************************************************************************)
(* make_roast                                                              *)
(***************************************************************************)
ROAST_TEMPLATES == <<
    <<"O", "h", " ", "l", "o", "o", "k", ",", " ", "{", "u", "}", ".", " ", "I", "f", " ", "I",
      " ", "w", "a", "n", "t", "e", "d", " ", "t", "o", " ", "h", "e", "a", "r", " ", "f", "r",
      "o", "m", " ", "s", "o", "m", "e", "o", "n", "e", " ", "l", "i", "k", "e", " ", "y", "o",
      "u", ",", " ", "I", "'", "d", " ", "a", "s", "k", " ", "m", "y", " ", "W", "i", "-", "F",
      "i", " ", "t", "o", " ", "d", "r", "o", "p", " ", "c", "o", "n", "n", "e", "c", "t", "i",
      "o", "n", ".">>,
    <<"{", "u", "}", ",", " ", "y", "o", "u", "'", "r", "e", " ", "l", "i", "k", "e", " ", "a",
      " ", "s", "o", "f", "t", "w", "a", "r", "e", " ", "u", "p", "d", "a", "t", "e", ".", " ",
      "W", "h", "e", "n", "e", "v", "e", "r", " ", "I", " ", "s", "e", "e", " ", "y", "o", "u",
      ",", " ", "I", " ", "t", "h", "i", "n", "k", " ", "'", "N", "o", "t", " ", "n", "o", "w",
      ".", "'">>,
    <<"I", "f", " ", "w", "i", "t", " ", "w", "e", "r", "e", " ", "R", "A", "M", ",", " ", "{",
      "u", "}", ",", " ", "y", "o", "u", "'", "d", " ", "s", "t", "i", "l", "l", " ", "b", "e",
      " ", "b", "u", "f", "f", "e", "r", "i", "n", "g", ".">>,
    <<"Y", "o", "u", "'", "r", "e", " ", "p", "r", "o", "o", "f", " ", "t", "h", "a", "t", " ",
      "e", "v", "o", "l", "u", "t", "i", "o", "n", " ", "c", "a", "n", " ", "g", "o", " ", "i",
      "n", " ", "r", "e", "v", "e", "r", "s", "e", ",", " ", "{", "u", "}", ".">> >>

\* longest user text a roast quotes in full
RoastQuoteLen == 30

short_user(user_text) ==
    IF Len(user_text) > RoastQuoteLen
    THEN SubSeq(user_text, 1, RoastQuoteLen) \o <<".", ".", ".">>
    ELSE user_text

\* t.format(u=short_user) for template number k (random.choice picks k)
make_roast(k, user_text) == replace(ROAST_TEMPLATES[k], <<"{", "u", "}">>, short_user(user_text))

(***************************************************************************)
(* to_shakespeare                                                          *)
(***************************************************************************)
SHAKESPEARE_REPLACEMENTS == <<
    << <<" ", "y", "o", "u", " ">>, <<" ", "t", "h", "o", "u", " ">> >>,
    << <<" ", "a", "r", "e", " ">>, <<" ", "a", "r", "t", " ">> >>,
    << <<" ", "m", "y", " ">>, <<" ", "m", "i", "n", "e", " ">> >>,
    << <<" ", "i", "s", " ">>, <<" ", "i", "s", "s", "t", " ">> >>,
    << <<" ", "d", "o", "n", "'", "t", " ">>, <<" ", "d", "o", "e", "s", "t", " ", "n", "o", "t", " ">> >>,
    << <<" ", "d", "o", " ", "n", "o", "t", " ">>, <<" ", "d", "o", "e", "s", "t", " ", "n", "o", "t", " ">> >>,
    << <<" ", "h", "e", "l", "l", "o">>, <<" ", "w", "e", "l", "l", " ", "m", "e", "t">> >> >>

\* for a, b in SHAKESPEARE_REPLACEMENTS: t = t.replace(a, b), from pair number k on
RECURSIVE ReplaceAll(_, _)
ReplaceAll(t, k) ==
    IF k > Len(SHAKESPEARE_REPLACEMENTS) THEN t
    ELSE ReplaceAll(replace(t, SHAKESPEARE_REPLACEMENTS[k][1],
                            SHAKESPEARE_REPLACEMENTS[k][2]), k + 1)

SentenceEnds == {".", "!", "?"}

PritheeSuffix == <<",", " ", "p", "r", "i", "t", "h", "e", "e", ".">>

\* the text before the archaic ending is decided: padded, lowered, replaced,
\* stripped and capitalized
shakespeare_body(text) ==
    LET t == strip(ReplaceAll(<<" ">> \o lower(text) \o <<" ">>, 1), Whitespace)
    IN  IF Len(t) > 0 THEN <<UpperChar(t[1])>> \o Tail(t) ELSE t

\* t.endswith(('.', '!', '?'))
EndsSentence(t) == Len(t) > 0 /\ t[Len(t)] \in SentenceEnds

\* a plausible slip: only '.' is taken for an ending
to_shakespeare_period_only(text) ==
    LET t == shakespeare_body(text)
    IN  IF Len(t) > 0 /\ t[Len(t)] = "." THEN t ELSE t \o PritheeSuffix

to_shakespeare(text) ==
    LET t == shakespeare_body(text)
    IN  IF ~EndsSentence(t) THEN t \o PritheeSuffix ELSE t

(***************************************************************************)
(* to_emoji                                                                *)
(***************************************************************************)
\* word -> alias
EMOJI_MAP == <<
    << <<"h", "a", "p", "p", "y">>, <<":", "s", "m", "i", "l", "e", ":">> >>,
    << <<"s", "a", "d">>, <<":", "p", "e", "n", "s", "i", "v", "e", ":">> >>,
    << <<"l", "o", "v", "e">>, <<":", "h", "e", "a", "r", "t", ":">> >>,
    << <<"f", "i", "r", "e">>, <<":", "f", "i", "r", "e", ":">> >>,
    << <<"o", "k">>, <<":", "o", "k", "_", "h", "a", "n", "d", ":">> >>,
    << <<"y", "e", "s">>, <<":", "w", "h", "i", "t", "e", "_", "c", "h", "e", "c", "k", "_", "m", "a",
                  "r", "k", ":">> >>,
    << <<"n", "o">>, <<":", "x", ":">> >>,
    << <<"c", "a", "t">>, <<":", "c", "a", "t", ":">> >>,
    << <<"d", "o", "g">>, <<":", "d", "o", "g", ":">> >>,
    << <<"h", "e", "l", "l", "o">>, <<":", "w", "a", "v", "e", ":">> >>,
    << <<"t", "h", "a", "n", "k", "s">>, <<":", "p", "r", "a", "y", ":">> >> >>

\* emoji.emojize(alias, language='alias'): the glyph of the alias, one element
\* named by the glyph's code point
EMOJI_GLYPHS == <<
    << <<":", "s", "m", "i", "l", "e", ":">>, "U+1F604" >>,
    << <<":", "p", "e", "n", "s", "i", "v", "e", ":">>, "U+1F614" >>,
    << <<":", "h", "e", "a", "r", "t", ":">>, "U+2764" >>,
    << <<":", "f", "i", "r", "e", ":">>, "U+1F525" >>,
    << <<":", "o", "k", "_", "h", "a", "n", "d", ":">>, "U+1F44C" >>,
    << <<":", "w", "h", "i", "t", "e", "_", "c", "h", "e", "c", "k", "_", "m", "a", "r", "k",
         ":">>, "U+2705" >>,
    << <<":", "x", ":">>, "U+274C" >>,
    << <<":", "c", "a", "t", ":">>, "U+1F431" >>,
    << <<":", "d", "o", "g", ":">>, "U+1F436" >>,
    << <<":", "w", "a", "v", "e", ":">>, "U+1F44B" >>,
    << <<":", "p", "r", "a", "y", ":">>, "U+1F64F" >> >>

emojize(alias) ==
    IF \E i \in 1..Len(EMOJI_GLYPHS) : EMOJI_GLYPHS[i][1] = alias
    THEN << EMOJI_GLYPHS[CHOOSE i \in 1..Len(EMOJI_GLYPHS) : EMOJI_GLYPHS[i][1] = alias][2] >>
    ELSE alias

EmojiPunctuation == {".", ",", "!", "?"}

\* the body of the loop over words
emoji_word(w) ==
    LET key == strip(lower(w), EmojiPunctuation)
    IN  IF \E i \in 1..Len(EMOJI_MAP) : EMOJI_MAP[i][1] = key
        THEN emojize(EMOJI_MAP[CHOOSE i \in 1..Len(EMOJI_MAP) : EMOJI_MAP[i][1] = key][2])
        ELSE w

to_emoji(text) ==
    LET words == split(text)
    IN  join(<<" ">>, [i \in 1..Len(words) |-> emoji_word(words[i])])

(***************************************************************************)
(* The widgets and the conversation log.                                   *)
(***************************************************************************)
Personas == {"Neutral", "RoastBot", "ShakespeareBot", "Emoji Translator"}

DefaultPersona == "Neutral"

DefaultMaxHistory == 6

\* the slider runs from 1 to 20; the model moves it between its default, under
\* which the whole log fits the window, and 1, under which the window is one pair
HistoryChoices == {1, DefaultMaxHistory}

\* what the user types
Messages == { <<"h", "i">>, <<"N", "o", " ", "c", "a", "t", "!">> }

\* what the model answers when it answers
Responses == { <<"Y", "o", "u", " ", "a", "r", "e", " ", "o", "k", ".">> }

\* generated_responses is empty
NoResponse == <<"no response">>

NothingToSay == <<"I", " ", "h", "a", "v", "e", " ", "n", "o", "t", "h", "i", "n", "g", " ",
                  "t", "o", " ", "s", "a", "y", ".">>

\* str(e) of what the model call raises
Failures == { <<"C", "U", "D", "A", " ", "i", "s", " ", "o", "u", "t", " ", "o", "f", " ", "m",
                "e", "m", "o", "r", "y">> }

ErrorPrefix == <<"(", "m", "o", "d", "e", "l", " ", "e", "r", "r", "o", "r", ")", " ">>

Turn(role, text) == [role |-> role, text |-> text]

\* a slip that acts on the comment "Keep history length manageable" and keeps
\* only the last pair
AppendTurn_trimmed(log, turn) == LastN(Append(log, turn), 2)

\* st.session_state['history'].append(turn)
AppendTurn(log, turn) == Append(log, turn)

(***************************************************************************)
(* Prompt assembly.                                                        *)
(***************************************************************************)
persona_instruction(p) ==
    CASE p = "RoastBot" ->
           <<"Y", "o", "u", " ", "a", "r", "e", " ", "R", "o", "a", "s", "t", "B", "o", "t",
             ".", " ", "A", "l", "w", "a", "y", "s", " ", "a", "n", "s", "w", "e", "r", " ",
             "w", "i", "t", "h", " ", "a", " ", "w", "i", "t", "t", "y", ",", " ", "s", "a",
             "r", "c", "a", "s", "t", "i", "c", " ", "r", "o", "a", "s", "t", " ", "a", "i",
             "m", "e", "d", " ", "p", "l", "a", "y", "f", "u", "l", "l", "y", " ", "a", "t",
             " ", "t", "h", "e", " ", "u", "s", "e", "r", ".", "\n">>
      [] p = "ShakespeareBot" ->
           <<"Y", "o", "u", " ", "a", "r", "e", " ", "S", "h", "a", "k", "e", "s", "p", "e",
             "a", "r", "e", "B", "o", "t", ".", " ", "A", "n", "s", "w", "e", "r", " ", "i",
             "n", " ", "E", "a", "r", "l", "y", " ", "M", "o", "d", "e", "r", "n", " ", "E",
             "n", "g", "l", "i", "s", "h", ",", " ", "u", "s", "i", "n", "g", " ", "p", "o",
             "e", "t", "i", "c", " ", "a", "n", "d", " ", "a", "r", "c", "h", "a", "i", "c",
             " ", "p", "h", "r", "a", "s", "i", "n", "g", ".", "\n">>
      [] p = "Emoji Translator" ->
           <<"Y", "o", "u", " ", "a", "r", "e", " ", "E", "m", "o", "j", "i", " ", "T", "r",
             "a", "n", "s", "l", "a", "t", "o", "r", " ", "B", "o", "t", ".", " ", "C", "o",
             "n", "c", "i", "s", "e", "l", "y", " ", "t", "r", "a", "n", "s", "l", "a", "t",
             "e", " ", "t", "h", "e", " ", "u", "s", "e", "r", "'", "s", " ", "m", "e", "s",
             "s", "a", "g", "e", " ", "i", "n", "t", "o", " ", "e", "m", "o", "j", "i", "-",
             "r", "i", "c", "h", " ", "t", "e", "x", "t", ".", "\n">>
      [] OTHER -> <<>>

\* the window taken by a slip that counts turns where the slider counts pairs
turns_to_include_turns(log, mh) ==
    LastN(SelectSeq(log, LAMBDA t : t.role \in {"user", "bot"}), mh)

\* [t for t in history if t[0] in ('user','bot')][-max_history*2:]
turns_to_include(log, mh) ==
    LastN(SelectSeq(log, LAMBDA t : t.role \in {"user", "bot"}), mh * 2)

UserLabel == <<"U", "s", "e", "r", ":", " ">>
BotLabel == <<"B", "o", "t", ":", " ">>

\* the line appended to prompt_parts for one turn
turn_line(t) ==
    IF t.role = "user" THEN UserLabel \o t.text \o <<"\n">>
    ELSE BotLabel \o t.text \o <<"\n">>

\* f"User: {user_input}\nBot:"
final_cue(msg) == UserLabel \o msg \o <<"\n", "B", "o", "t", ":">>

prompt_parts(log, p, mh, msg) ==
    LET turns == turns_to_include(log, mh)
    IN  <<persona_instruction(p)>> \o [i \in 1..Len(turns) |-> turn_line(turns[i])]
            \o <<final_cue(msg)>>

\* "\n".join(prompt_parts), built from the log the user turn was just appended to
model_input(log, p, mh, msg) == join(<<"\n">>, prompt_parts(log, p, mh, msg))

(***************************************************************************)
(* Persona post-processing.                                                *)
(***************************************************************************)
\* a slip that translates the model's text where the script translates the user's
bot_display_emoji_of_raw(p, k, msg, raw) ==
    CASE p = "RoastBot" -> <<"*", "*">> \o make_roast(k, msg) \o <<"*", "*", " ", " ", "\n", "\n">> \o raw
      [] p = "ShakespeareBot" -> to_shakespeare(raw)
      [] p = "Emoji Translator" -> to_emoji(raw)
      [] OTHER -> raw

\* bot_display for persona p, roast template k, user message msg and bot_raw raw
bot_display(p, k, msg, raw) ==
    CASE p = "RoastBot" -> <<"*", "*">> \o make_roast(k, msg) \o <<"*", "*", " ", " ", "\n", "\n">> \o raw
      [] p = "ShakespeareBot" -> to_shakespeare(raw)
      [] p = "Emoji Translator" -> to_emoji(msg)
      [] OTHER -> raw

(***************************************************************************)
(* The state after construction: a new session, the first run pending.     *)
(***************************************************************************)
Init ==
    /\ keys = {}
    /\ history = <<>>
    /\ conv = None
    /\ persona = DefaultPersona
    /\ max_history = DefaultMaxHistory
    /\ user_input = <<>>
    /\ displayed = <<>>
    /\ bot_raw = None
    /\ failure = None
    /\ trigger = "session"
    /\ pc = "start"
    /\ text_in = <<>>
    /\ text_out = None

(***************************************************************************)
(* The user acts between two runs of the script: when the script has       *)
(* finished, or when it is about to run again after st.experimental_rerun. *)
(* A widget keeps its value from one run to the next.                      *)
(***************************************************************************)
Interactive == pc = "idle" \/ (pc = "start" /\ trigger = "rerun")

\* the log has room for another user/bot pair; once it is full the model follows
\* the session no further, except for the reset
HasRoom == Len(history) < 2 * MaxCycles

\* the user types m (or empties the box) and presses Enter
EditText(m) ==
    /\ Interactive
    /\ HasRoom
    /\ m # user_input
    /\ user_input' = m
    /\ trigger' = "edit"
    /\ pc' = "start"
    /\ UNCHANGED <<keys, history, conv, persona, max_history, displayed, bot_raw,
                   failure, text_in, text_out>>

SelectPersona(p) ==
    /\ Interactive
    /\ HasRoom
    /\ p # persona
    /\ persona' = p
    /\ trigger' = "persona"
    /\ pc' = "start"
    /\ UNCHANGED <<keys, history, conv, max_history, user_input, displayed, bot_raw,
                   failure, text_in, text_out>>

SetMaxHistory(h) ==
    /\ Interactive
    /\ HasRoom
    /\ h # max_history
    /\ max_history' = h
    /\ trigger' = "slider"
    /\ pc' = "start"
    /\ UNCHANGED <<keys, history, conv, persona, user_input, displayed, bot_raw,
                   failure, text_in, text_out>>

\* the user presses "Clear conversation": the button is True in the next run
ClickClear ==
    /\ Interactive
    /\ trigger' = "clear"
    /\ pc' = "start"
    /\ UNCHANGED <<keys, history, conv, persona, max_history, user_input, displayed,
                   bot_raw, failure, text_in, text_out>>

(***************************************************************************)
(* The script.                                                             *)
(***************************************************************************)
\* a slip that drops the conversation object and keeps the log
session_state_clear_conv_only ==
    /\ keys' = keys \ {"conv"}
    /\ conv' = None
    /\ UNCHANGED history

\* st.session_state.clear()
session_state_clear ==
    /\ keys' = {}
    /\ history' = <<>>
    /\ conv' = None

\* if st.button("Clear conversation"): clear and rerun.  Whether the widgets keep
\* their values across the clear is the framework's business: either happens.
ClearConversation ==
    /\ pc = "start"
    /\ trigger = "clear"
    /\ session_state_clear
    /\ user_input' \in {user_input, <<>>}
    /\ persona' \in {persona, DefaultPersona}
    /\ max_history' \in {max_history, DefaultMaxHistory}
    /\ trigger' = "rerun"
    /\ pc' = "start"
    /\ UNCHANGED <<displayed, bot_raw, failure, text_in, text_out>>

\* the log after "if 'history' not in st.session_state"
InitializedHistory == IF "history" \in keys THEN history ELSE <<>>

\* the chat display: one entry per turn, bot turns labelled with the persona
\* selected now
Render(log, p) ==
    [i \in 1..Len(log) |->
        [label |-> IF log[i].role = "user" THEN <<"You">> ELSE <<"Bot", p>>,
         text |-> log[i].text]]

\* a run of the script with an empty text box: display the log and finish
RunIdle ==
    /\ pc = "start"
    /\ trigger # "clear"
    /\ user_input = <<>>
    /\ keys' = keys \cup {"history", "conv"}
    /\ history' = InitializedHistory
    /\ conv' = IF "conv" \in keys THEN conv ELSE None
    /\ displayed' = Render(InitializedHistory, persona)
    /\ pc' = "idle"
    /\ trigger' = "none"
    /\ UNCHANGED <<persona, max_history, user_input, bot_raw, failure, text_in,
                   text_out>>

\* a run of the script with text in the box: display the log, append the user
\* turn, assemble the prompt and make the Conversation
RunSubmit ==
    /\ pc = "start"
    /\ trigger # "clear"
    /\ user_input # <<>>
    /\ Len(InitializedHistory) < 2 * MaxCycles
    /\ keys' = keys \cup {"history", "conv"}
    /\ displayed' = Render(InitializedHistory, persona)
    /\ history' = AppendTurn(InitializedHistory, Turn("user", user_input))
    /\ conv' = model_input(history', persona, max_history, user_input)
    /\ pc' = "generate"
    /\ trigger' = "none"
    /\ UNCHANGED <<persona, max_history, user_input, bot_raw, failure, text_in,
                   text_out>>

\* a slip that lets the exception leave the script: the run ends there, with
\* the traceback on the page, and the session waits for the user
OnModelFailure_propagate(e) ==
    /\ bot_raw' = None
    /\ failure' = None
    /\ pc' = "idle"

\* except Exception as e: bot_raw = "(model error) " + str(e)
OnModelFailure(e) ==
    /\ bot_raw' = ErrorPrefix \o e
    /\ failure' = e
    /\ pc' = "post"

\* conv_pipeline(conv) returns: the last generated response, or the fallback
ModelAnswers(r) ==
    /\ pc = "generate"
    /\ bot_raw' = IF r = NoResponse THEN NothingToSay ELSE r
    /\ failure' = None
    /\ pc' = "post"
    /\ UNCHANGED <<keys, history, conv, persona, max_history, user_input, displayed,
                   trigger, text_in, text_out>>

\* conv_pipeline(conv) raises
ModelFails(e) ==
    /\ pc = "generate"
    /\ OnModelFailure(e)
    /\ UNCHANGED <<keys, history, conv, persona, max_history, user_input, displayed,
                   trigger, text_in, text_out>>

\* persona post-processing, the bot turn, st.experimental_rerun(); make_roast
\* draws template k
PostProcess(k) ==
    /\ pc = "post"
    /\ history' = AppendTurn(history,
                             Turn("bot", bot_display(persona, k, user_input, bot_raw)))
    /\ bot_raw' = None
    /\ failure' = None
    /\ trigger' = "rerun"
    /\ pc' = "start"
    /\ UNCHANGED <<keys, conv, persona, max_history, user_input, displayed,
                   text_in, text_out>>

Next ==
    \/ \E m \in Messages \cup {<<>>} : EditText(m)
    \/ \E p \in Personas : SelectPersona(p)
    \/ \E h \in HistoryChoices : SetMaxHistory(h)
    \/ ClickClear
    \/ ClearConversation
    \/ RunIdle
    \/ RunSubmit
    \/ \E r \in Responses \cup {NoResponse} : ModelAnswers(r)
    \/ \E e \in Failures : ModelFails(e)
    \/ \E k \in 1..Len(ROAST_TEMPLATES) : PostProcess(k)

Spec == Init /\ [][Next]_vars

(***************************************************************************)
(* to_shakespeare called directly, on every text of at most MaxTextLen     *)
(* characters of TextAlphabet and on the sample texts.                     *)
(***************************************************************************)
TextAlphabet == {" ", "i", "s", "A", "!", "."}

SampleTexts == { <<"h", "e", "l", "l", "o">>, <<"y", "o", "u", " ", "a", "r", "e", " ", "g", "r", "e", "a", "t",
                              "!">>, <<"I", "s", " ", "m", "y", " ", "c", "a", "t",
                                                  " ", "o", "k", "?">>, <<"m", "y", " ", "m", "y",
                                                                     " ", "m", "y">>,
                 <<"I", " ", "d", "o", " ", "n", "o", "t", " ", "k", "n", "o", "w">>, <<"\t", "H", "e", "l", "l", "o", " ", "y", "o", "u", "\n">> }

ShakespeareInputs ==
    UNION {[1..n -> TextAlphabet] : n \in 0..MaxTextLen} \cup SampleTexts

InitShakespeare ==
    /\ keys = {}
    /\ history = <<>>
    /\ conv = None
    /\ persona = DefaultPersona
    /\ max_history = DefaultMaxHistory
    /\ user_input = <<>>
    /\ displayed = <<>>
    /\ bot_raw = None
    /\ failure = None
    /\ trigger = "session"
    /\ pc = "call"
    /\ text_in \in ShakespeareInputs
    /\ text_out = None

CallShakespeare ==
    /\ pc = "call"
    /\ text_out' = to_shakespeare(text_in)
    /\ pc' = "returned"
    /\ UNCHANGED <<keys, history, conv, persona, max_history, user_input, displayed,
                   bot_raw, failure, trigger, text_in>>

NextShakespeare == CallShakespeare

SpecShakespeare == InitShakespeare /\ [][NextShakespeare]_vars

(***************************************************************************)
(* Properties.                                                             *)
(***************************************************************************)
IsPrefix(a, b) == Len(a) <= Len(b) /\ SubSeq(b, 1, Len(a)) = a

LastTurn(log) == log[Len(log)]

Min(a, b) == IF a <= b THEN a ELSE b

\* C1: a message submitted while the log is empty is sent to the model as the
\* persona instruction line joined with the final cue only; no rendered turn
\* precedes the cue and the message appears once (Neutral, "hi": "\nUser: hi\nBot:").
\* The script appends the user turn before it assembles the prompt, so this fails.
C1_EmptyLogPromptIsCueOnly ==
    (pc = "generate" /\ Len(history) = 1)
        => conv = persona_instruction(persona) \o <<"\n">> \o UserLabel \o user_input
                      \o <<"\n", "B", "o", "t", ":">>

\* C2: on a model failure the text of the bot turn appended to the log contains
\* the error prefix followed by the failure's description, whatever the persona.
\* The persona post-processing also runs on the error text, so this fails.
C2_ErrorTextInBotTurn ==
    [][(pc = "post" /\ failure # None)
          => Contains(LastTurn(history').text, ErrorPrefix \o failure)]_vars

\* C3: whether the model call returns or raises, the run goes on to the
\* post-processing, which appends exactly one bot turn after the user turn and
\* leaves the session ready for the next run.
C3_FailureNeverPropagates ==
    [][/\ pc = "generate" => (pc' = "post" /\ history' = history)
       /\ pc = "post" =>
             /\ pc' = "start" /\ trigger' = "rerun"
             /\ LastTurn(history).role = "user"
             /\ Len(history') = Len(history) + 1
             /\ SubSeq(history', 1, Len(history)) = history
             /\ LastTurn(history').role = "bot"]_vars

\* a failed generation has been turned into the bot turn of the first cycle
C3_Witness ==
    /\ pc = "start" /\ trigger = "rerun"
    /\ Len(history) = 2
    /\ persona = "Neutral"
    /\ history[2] = Turn("bot", ErrorPrefix \o <<"C", "U", "D", "A", " ", "i", "s", " ", "o",
                                                 "u", "t", " ", "o", "f", " ", "m", "e", "m",
                                                 "o", "r", "y">>)

\* C4: the prompt is the instruction line, then the last min(2 * max_history, n)
\* entries of the n-entry log as it is when the prompt is built, in log order,
\* each as its "User: " or "Bot: " line, then the final cue; nothing older.
C4_PromptWindow ==
    pc = "generate" =>
        LET n == Len(history)
            k == Min(2 * max_history, n)
            line(t) == (IF t.role = "user" THEN <<"U", "s", "e", "r", ":", " ">> ELSE <<"B", "o", "t", ":", " ">>)
                           \o t.text \o <<"\n">>
            lines == [i \in 1..k |-> line(history[n - k + i])]
        IN  conv = join(<<"\n">>, <<persona_instruction(persona)>> \o lines
                                   \o <<<<"U", "s", "e", "r", ":", " ">> \o user_input \o <<"\n", "B", "o", "t", ":">>>>)

\* the log is longer than the window when the prompt is built
C4_Witness ==
    /\ pc = "generate"
    /\ Len(history) > 2 * max_history
    /\ ~Contains(conv, history[1].text \o <<"\n">>)

\* C5: after a successful model call the bot turn's text is fixed by the persona
\* of the cycle: Neutral stores the model's text, RoastBot a roast of the user
\* message ahead of the model's text, ShakespeareBot the archaic transform of the
\* model's text, Emoji Translator the emoji transform of the user message, which
\* does not depend on the model's text.
C5_PersonaDecidesBotText ==
    [][(pc = "post" /\ failure = None) =>
          LET text == LastTurn(history').text
              msg == LastTurn(history).text
          IN  /\ persona = "Neutral" => text = bot_raw
              /\ persona = "RoastBot" =>
                    \E k \in 1..Len(ROAST_TEMPLATES) :
                        text = <<"*", "*">> \o make_roast(k, msg) \o <<"*", "*", " ", " ", "\n", "\n">> \o bot_raw
              /\ persona = "ShakespeareBot" => text = to_shakespeare(bot_raw)
              /\ persona = "Emoji Translator" => text = to_emoji(msg)]_vars

\* the Emoji Translator has answered "No cat!" and a ShakespeareBot answer precedes
C5_Witness ==
    /\ pc = "start" /\ trigger = "rerun"
    /\ Len(history) = 4
    /\ history[2].text = <<"T", "h", "o", "u", " ", "a", "r", "t", " ", "o", "k", ".">>
    /\ history[3].text = <<"N", "o", " ", "c", "a", "t", "!">>
    /\ history[4].text = <<"U+274C", " ", "U+1F431">>

\* C6: one submission causes one cycle; the re-render at the end of the cycle and
\* a re-render caused by the persona selector or the slider append no turn and
\* call no model.  The text box keeps its value across the rerun, so this fails.
C6_OneCyclePerSubmission ==
    [][(pc = "start" /\ trigger \in {"rerun", "persona", "slider"})
          => (history' = history /\ pc' # "generate")]_vars

\* C7: the reset leaves no log in the session whatever it held, and a run that
\* finds no log in the session (after a reset, or in a new session) renders the
\* empty sequence.
C7_ResetShowsEmptyLog ==
    [][/\ (pc = "start" /\ trigger = "clear")
             => ("history" \notin keys' /\ history' = <<>>)
       /\ (pc = "start" /\ "history" \notin keys /\ pc' \in {"idle", "generate"})
             => displayed' = <<>>]_vars

\* the reset has acted on a session whose last render showed turns
C7_Witness ==
    /\ keys = {}
    /\ history = <<>>
    /\ Len(displayed) >= 2
    /\ pc = "start" /\ trigger = "rerun"

\* C8: except for the reset, every step leaves the log as it was or extends it
\* at the end: the log before the step is a prefix of the log after it.
C8_AppendOnly ==
    [][~(pc = "start" /\ trigger = "clear") => IsPrefix(history, history')]_vars

\* two cycles have been appended one after the other
C8_Witness ==
    /\ Len(history) = 4
    /\ history[1].text # history[3].text

\* C9: to_shakespeare returns, for every text, a text ending in '.', '!' or '?';
\* ", prithee." is appended exactly when the replaced, stripped and capitalized
\* text does not end so ("hello": "Well met, prithee."; "you are great!": no
\* suffix; the empty text: the suffix alone).
C9_ShakespeareEnding ==
    pc = "returned" =>
        LET body == shakespeare_body(text_in)
            ended == Len(body) > 0 /\ body[Len(body)] \in {".", "!", "?"}
        IN  /\ Len(text_out) > 0
            /\ text_out[Len(text_out)] \in {".", "!", "?"}
            /\ ended => text_out = body
            /\ ~ended => text_out = body \o <<",", " ", "p", "r", "i", "t", "h", "e", "e", ".">>
            /\ text_in = <<"h", "e", "l", "l", "o">> => text_out = <<"W", "e", "l", "l", " ", "m", "e", "t", ",",
                                                   " ", "p", "r", "i", "t", "h", "e", "e", ".">>
            /\ text_in = <<"y", "o", "u", " ", "a", "r", "e", " ", "g", "r", "e", "a", "t", "!">> => text_out = <<"T", "h", "o", "u", " ", "a", "r",
                                                            "t", " ", "g", "r", "e", "a", "t",
                                                            "!">>
            /\ text_in = <<>> => text_out = <<",", " ", "p", "r", "i", "t", "h", "e", "e", ".">>

\* a text ending in '!' has been returned without the suffix
C9_Witness ==
    /\ pc = "returned"
    /\ text_in = <<"y", "o", "u", " ", "a", "r", "e", " ", "g", "r", "e", "a", "t", "!">>
    /\ text_out = <<"T", "h", "o", "u", " ", "a", "r", "t", " ", "g", "r", "e", "a", "t", "!">>

\* C10: the log alternates user, bot, user, bot, ... from a user turn on, and
\* between two runs of the script (where it is rendered) its length is even.
C10_Alternation ==
    /\ \A i \in 1..Len(history) :
          history[i].role = (IF i % 2 = 1 THEN "user" ELSE "bot")
    /\ pc \in {"start", "idle"} => Len(history) % 2 = 0

\* a failed generation is followed by a further cycle
C10_Witness ==
    /\ pc = "start"
    /\ Len(history) = 4
    /\ startswith(history[2].text, ErrorPrefix)
    /\ ~startswith(history[4].text, ErrorPrefix)

====
